---- MODULE Spec2Model ----
(***************************************************************************)
(* A model of app.py of max-stock-scanner: the PTT link selection, the     *)
(* article parser, the technical-indicator report, the model discovery     *)
(* and the start-button handler that drives them over the session state.   *)
(*                                                                         *)
(* Texts are sequences of one-character strings.  The three stance         *)
(* characters of PTT are written AGREE, BOO and ARROW.                     *)
(***************************************************************************)
EXTENDS Integers, Sequences, FiniteSets, TLC

VARIABLES
    \* session state (st.session_state) and the start-button handler
    scraped_data, tech_report, logs,
    pc, run, keyword_input, limit_ptt, stock_code,
    ptt_links, sorted_links, idx, all_text_data, parsed, prior,
    \* parse_ptt_article on its own
    response, res,
    \* calculate_technical_indicators on its own
    history, report,
    \* find_valid_model on its own
    listing, model_name

vars == <<scraped_data, tech_report, logs, pc, run, keyword_input, limit_ptt,
          stock_code, ptt_links, sorted_links, idx, all_text_data, parsed,
          prior, response, res, history, report, listing, model_name>>

handlerVars == <<scraped_data, tech_report, logs, run, keyword_input,
                 stock_code, idx, all_text_data, parsed, prior>>
linkVars    == <<ptt_links, sorted_links, limit_ptt>>
parseVars   == <<response, res>>
techVars    == <<history, report>>
modelVars   == <<listing, model_name>>

----------------------------------------------------------------------------
\* Bounds of the model.
MaxLinks  == 3      \* most distinct links one search gathers
MaxPushes == 2      \* most comment blocks on one page
MaxModels == 2      \* most entries in one model listing
MaxRuns   == 2      \* most presses of the start button
TailLen   == 3      \* rows of the price table whose K/D values are modelled
ExtraBars == 1      \* bars modelled beyond the MA60 window

\* Program constants.
MIN_LIMIT  == 1     \* number_input min_value
MAX_LIMIT  == 50    \* number_input max_value
MIN_META   == 4     \* metadata values a page must carry
MIN_BARS   == 20    \* bars the indicators need
MA60_WIN   == 60    \* window of the longest moving average

----------------------------------------------------------------------------
\* Text helpers.
Digit == {"0", "1", "2", "3", "4", "5", "6", "7", "8", "9"}
White == {" ", "\n"}

DigitVal(c) ==
    CASE c = "0" -> 0 [] c = "1" -> 1 [] c = "2" -> 2 [] c = "3" -> 3
      [] c = "4" -> 4 [] c = "5" -> 5 [] c = "6" -> 6 [] c = "7" -> 7
      [] c = "8" -> 8 [] c = "9" -> 9

Contains(text, c) == \E i \in 1..Len(text) : text[i] = c

RECURSIVE DigitsValue(_, _, _)
\* int() of the maximal run of digits of text that starts at position j
DigitsValue(text, j, acc) ==
    IF j <= Len(text) /\ text[j] \in Digit
    THEN DigitsValue(text, j + 1, acc * 10 + DigitVal(text[j]))
    ELSE acc

----------------------------------------------------------------------------
\* Link selection.

\* re.search(r'M\.(\d+)', url): the positions where the pattern matches
MatchStarts(url) ==
    {i \in 1..Len(url) :
        /\ i + 2 <= Len(url)
        /\ url[i] = "M"
        /\ url[i + 1] = "."
        /\ url[i + 2] \in Digit}

extract_ptt_timestamp(url) ==
    IF MatchStarts(url) = {}
    THEN 0
    ELSE LET i == CHOOSE k \in MatchStarts(url) :
                     \A m \in MatchStarts(url) : k <= m
         IN  DigitsValue(url, i + 2, 0)

RECURSIVE InsertAsc(_, _)
InsertAsc(x, s) ==
    IF s = <<>> THEN <<x>>
    ELSE IF extract_ptt_timestamp(Head(s)) <= extract_ptt_timestamp(x)
         THEN <<Head(s)>> \o InsertAsc(x, Tail(s))
         ELSE <<x>> \o s

RECURSIVE InsertDesc(_, _)
\* x goes behind every element whose key is not smaller: the sort is stable
InsertDesc(x, s) ==
    IF s = <<>> THEN <<x>>
    ELSE IF extract_ptt_timestamp(Head(s)) >= extract_ptt_timestamp(x)
         THEN <<Head(s)>> \o InsertDesc(x, Tail(s))
         ELSE <<x>> \o s

RECURSIVE SortAsc(_)
SortAsc(s) ==
    IF s = <<>> THEN <<>>
    ELSE InsertAsc(s[Len(s)], SortAsc(SubSeq(s, 1, Len(s) - 1)))

RECURSIVE SortDesc(_)
\* sorted(s, key=extract_ptt_timestamp, reverse=True)
SortDesc(s) ==
    IF s = <<>> THEN <<>>
    ELSE InsertDesc(s[Len(s)], SortDesc(SubSeq(s, 1, Len(s) - 1)))

Truncate(s, n) == SubSeq(s, 1, IF n < Len(s) THEN n ELSE Len(s))

RECURSIVE Orders(_)
\* list(ptt_links): a set is iterated in an order the program does not fix
Orders(S) ==
    IF S = {} THEN {<<>>}
    ELSE UNION {{<<x>> \o p : p \in Orders(S \ {x})} : x \in S}

\* sorted(list(ptt_links), key=extract_ptt_timestamp, reverse=True)[:limit_ptt]
SelectLinks(order, limit) == Truncate(SortDesc(order), limit)

BASE == <<"https://www.ptt.cc">>
Href(name) == BASE \o name

\* The links a search can gather: dated articles, two articles of one
\* timestamp, a link without 'M.', and one whose first 'M.' has no digits.
U300  == Href(<<"/", "M", ".", "3", "0", "0", ".", "A">>)
U100  == Href(<<"/", "M", ".", "1", "0", "0", ".", "A">>)
U200  == Href(<<"/", "M", ".", "2", "0", "0", ".", "A">>)
U100B == Href(<<"/", "M", ".", "1", "0", "0", ".", "B">>)
UNONE == Href(<<"/", "i", "n", "d", "e", "x">>)
ULATE == Href(<<"/", "M", ".", "x", "M", "M", ".", "7">>)

UrlPool == {U300, U100, U200, U100B, UNONE, ULATE}

LinkSets == {S \in SUBSET UrlPool : Cardinality(S) <= MaxLinks}

Limits == MIN_LIMIT..MAX_LIMIT

Idle == <<"unused">>

\* Each specification leaves the variables of the other parts at rest.
HandlerIdle ==
    /\ scraped_data = <<>> /\ tech_report = Idle /\ logs = <<>>
    /\ run = 0 /\ keyword_input = <<>> /\ stock_code = <<>>
    /\ idx = 0 /\ all_text_data = <<>> /\ parsed = <<>> /\ prior = 0
LinksIdle == ptt_links = {} /\ sorted_links = <<>> /\ limit_ptt = MIN_LIMIT
ParseIdle == response = Idle /\ res = Idle
TechIdle  == history = Idle /\ report = Idle
ModelIdle == listing = Idle /\ model_name = Idle

InitLinks ==
    /\ ptt_links \in LinkSets
    /\ limit_ptt \in Limits
    /\ sorted_links = <<>>
    /\ pc = "links"
    /\ HandlerIdle /\ ParseIdle /\ TechIdle /\ ModelIdle

SortLinks ==
    /\ pc = "links"
    /\ \E order \in Orders(ptt_links) :
           sorted_links' = SelectLinks(order, limit_ptt)
    /\ pc' = "selected"
    /\ UNCHANGED <<ptt_links, limit_ptt>>
    /\ UNCHANGED handlerVars
    /\ UNCHANGED <<parseVars, techVars, modelVars>>

NextLinks == SortLinks

SpecLinks == InitLinks /\ [][NextLinks]_vars

Range(s) == {s[i] : i \in 1..Len(s)}

Min(a, b) == IF a < b THEN a ELSE b

\* C1 (order): no URL twice, min(limit, distinct URLs) links, keys in
\* non-increasing order, no link left out has a larger key than a selected one.
C1_Order ==
    pc = "selected" =>
        /\ \A i, j \in 1..Len(sorted_links) :
               i # j => sorted_links[i] # sorted_links[j]
        /\ Range(sorted_links) \subseteq ptt_links
        /\ Len(sorted_links) = Min(limit_ptt, Cardinality(ptt_links))
        /\ \A i, j \in 1..Len(sorted_links) :
               i < j => extract_ptt_timestamp(sorted_links[i])
                            >= extract_ptt_timestamp(sorted_links[j])
        /\ \A u \in Range(sorted_links) :
               \A v \in ptt_links \ Range(sorted_links) :
                   extract_ptt_timestamp(u) >= extract_ptt_timestamp(v)

\* C1 (keys): the key is the integer after the first 'M.' that digits follow,
\* and 0 when the URL has none, so that a key-less link is never placed
\* before a dated one.
C1_Keys ==
    pc = "selected" =>
        /\ \A u \in ptt_links :
               extract_ptt_timestamp(u) =
                   CASE u = UNONE -> 0
                     [] u = ULATE -> 7
                     [] u \in {U100, U100B} -> 100
                     [] u = U200 -> 200
                     [] u = U300 -> 300
        /\ \A i, j \in 1..Len(sorted_links) :
               (sorted_links[i] = UNONE /\ sorted_links[j] # UNONE) => j < i

\* C1: the links handed to parse_ptt_article hold no URL twice, number
\* min(limit, distinct URLs), are in non-increasing order of
\* extract_ptt_timestamp (the integer after 'M.', 0 when absent, key-less
\* links last), and no link left out has a larger key than a selected one.
C1_LinkSelection == C1_Order /\ C1_Keys

\* Keys 300, 100, 200 with limit 2 select [300, 200].
C1_Witness ==
    /\ pc = "selected"
    /\ ptt_links = {U300, U100, U200}
    /\ limit_ptt = 2
    /\ sorted_links = <<U300, U200>>

----------------------------------------------------------------------------
\* The article parser.

AGREE == "tui"      \* the agree marker of a comment block
BOO   == "xu"       \* the disagree marker
ARROW == "->"       \* the neutral marker

RECURSIVE LStrip(_)
LStrip(t) == IF t # <<>> /\ Head(t) \in White THEN LStrip(Tail(t)) ELSE t

RECURSIVE RStrip(_)
RStrip(t) ==
    IF t # <<>> /\ t[Len(t)] \in White
    THEN RStrip(SubSeq(t, 1, Len(t) - 1))
    ELSE t

\* str.strip()
Strip(t) == RStrip(LStrip(t))

RECURSIVE RemoveColonSpace(_)
\* str.replace(': ', '')
RemoveColonSpace(t) ==
    IF t = <<>> THEN <<>>
    ELSE IF Len(t) >= 2 /\ t[1] = ":" /\ t[2] = " "
         THEN RemoveColonSpace(SubSeq(t, 3, Len(t)))
         ELSE <<Head(t)>> \o RemoveColonSpace(Tail(t))

RECURSIVE JoinWords(_)
JoinWords(t) ==
    IF t = <<>> THEN <<>>
    ELSE IF Head(t) \in White
         THEN <<" ">> \o JoinWords(LStrip(t))
         ELSE <<Head(t)>> \o JoinWords(Tail(t))

\* " ".join(raw_time.split())
CollapseWhite(t) == JoinWords(Strip(t))

\* A span of a comment block: there or not, with its text.
Span(text) == [present |-> TRUE, text |-> text]
NoSpan     == [present |-> FALSE, text |-> <<>>]

\* p.text: the text of everything inside the block
BlockText(p) ==
    p.tag.text \o p.userid.text \o p.content.text \o p.ipdatetime.text

CountMarkedByTag(pushes, marker) ==
    Cardinality({i \in 1..Len(pushes) :
        pushes[i].tag.present /\ Contains(pushes[i].tag.text, marker)})

\* sum(1 for p in pushes if marker in p.text)
CountMarked(pushes, marker) ==
    Cardinality({i \in 1..Len(pushes) : Contains(BlockText(pushes[i]), marker)})

\* p.find(...).text raises when a span is missing
Raises(p) == ~p.tag.present \/ ~p.userid.present \/ ~p.content.present

RaisesLax(p) == ~p.tag.present \/ ~p.content.present

CommentLine(p) ==
    LET raw_time   == IF p.ipdatetime.present THEN Strip(p.ipdatetime.text)
                      ELSE <<>>
        clean_time == CollapseWhite(raw_time)
    IN  [time    |-> IF clean_time = <<>> THEN <<"No_Time">> ELSE clean_time,
         tag     |-> Strip(p.tag.text),
         user    |-> Strip(p.userid.text),
         content |-> RemoveColonSpace(Strip(p.content.text))]

RECURSIVE CommentsLax(_)
CommentsLax(pushes) ==
    IF pushes = <<>> THEN <<>>
    ELSE IF RaisesLax(Head(pushes)) THEN CommentsLax(Tail(pushes))
         ELSE <<CommentLine(Head(pushes))>> \o CommentsLax(Tail(pushes))

RECURSIVE Comments(_)
\* the loop over pushes that fills comments_list
Comments(pushes) ==
    IF pushes = <<>> THEN <<>>
    ELSE IF Raises(Head(pushes)) THEN Comments(Tail(pushes))
         ELSE <<CommentLine(Head(pushes))>> \o Comments(Tail(pushes))

NoSoup == [soup |-> FALSE]

\* get_ptt_soup(url), given what the GET produced
get_ptt_soup(resp) ==
    IF resp.kind = "http" /\ resp.status = 200
    THEN [soup |-> TRUE, page |-> resp.page]
    ELSE NoSoup

None == [none |-> TRUE]

Extract(page) ==
    LET meta          == page.meta
        main          == page.main
        comments_list == Comments(main.pushes)
    IN  [none      |-> FALSE,
         title     |-> Strip(meta[3]),
         date      |-> Strip(meta[4]),
         full_text |->
             [title    |-> Strip(meta[3]),
              author   |-> Strip(meta[1]),
              date     |-> Strip(meta[4]),
              p_cnt    |-> CountMarked(main.pushes, AGREE),
              b_cnt    |-> CountMarked(main.pushes, BOO),
              content  |-> Strip(main.body),
              n        |-> Len(comments_list),
              comments |-> comments_list]]

parse_ptt_article_any_status(resp) ==
    IF resp.kind # "http" THEN None
    ELSE IF Len(resp.page.meta) < MIN_META THEN None
    ELSE IF ~resp.page.main.present THEN None
    ELSE Extract(resp.page)

\* parse_ptt_article(url), given what the GET of url produced
parse_ptt_article(resp) ==
    LET s == get_ptt_soup(resp)
    IN  IF ~s.soup THEN None
        ELSE IF Len(s.page.meta) < MIN_META THEN None
        ELSE IF ~s.page.main.present THEN None     \* main.find_all raises
        ELSE Extract(s.page)

\* Inputs of the parser.
Tags     == {NoSpan, Span(<<AGREE, " ">>), Span(<<BOO, " ">>),
             Span(<<ARROW, " ">>)}
Users    == {NoSpan, Span(<<"u">>)}
Contents == {NoSpan, Span(<<":", " ", "o", "k">>),
             Span(<<":", " ", AGREE, " ">>)}
IpTimes  == {NoSpan, Span(<<" ", "i", "p", " ", " ", "t", "\n">>)}

Blocks == [tag : Tags, userid : Users, content : Contents, ipdatetime : IpTimes]

RECURSIVE SeqsUpTo(_, _)
SeqsUpTo(S, n) ==
    IF n = 0 THEN {<<>>}
    ELSE LET shorter == SeqsUpTo(S, n - 1)
         IN  shorter \cup {Append(q, x) : q \in shorter, x \in S}

MetaTexts == <<<<"a", "u">>, <<"S">>, <<" ", "T", " ">>, <<"d", "\n">>,
               <<"x">>>>
MetaLists == {SubSeq(MetaTexts, 1, n) : n \in {0, MIN_META - 1, MIN_META,
                                               MIN_META + 1}}

NoMain == [present |-> FALSE, body |-> <<>>, pushes |-> <<>>]
Mains  == {NoMain} \cup
          {[present |-> TRUE, body |-> <<" ", "b", "\n">>, pushes |-> ps] :
               ps \in SeqsUpTo(Blocks, MaxPushes)}

Pages == [meta : MetaLists, main : Mains]

NoPage == [meta |-> <<>>, main |-> NoMain]

\* A page with nothing missing, as an error status may also carry one.
FullPage ==
    [meta |-> SubSeq(MetaTexts, 1, MIN_META),
     main |-> [present |-> TRUE, body |-> <<" ", "b", "\n">>, pushes |-> <<>>]]

Responses ==
    {[kind |-> "error", status |-> 0, page |-> NoPage],
     [kind |-> "http", status |-> 404, page |-> NoPage],
     [kind |-> "http", status |-> 404, page |-> FullPage]}
    \cup {[kind |-> "http", status |-> 200, page |-> pg] : pg \in Pages}

InitParse ==
    /\ response \in Responses
    /\ res = Idle
    /\ pc = "parse"
    /\ HandlerIdle /\ LinksIdle /\ TechIdle /\ ModelIdle

Parse ==
    /\ pc = "parse"
    /\ res' = parse_ptt_article(response)
    /\ pc' = "parsed"
    /\ UNCHANGED <<response, handlerVars>>
    /\ UNCHANGED <<linkVars, techVars, modelVars>>

NextParse == Parse

SpecParse == InitParse /\ [][NextParse]_vars

Pushes == response.page.main.pushes

Parsed == pc = "parsed" /\ res # None

\* C2: the push count is the number of blocks whose stance marker is the
\* agree marker, the boo count the number whose marker is the disagree
\* marker; a block with the neutral marker adds to neither.
C2_TallyByMarker ==
    Parsed =>
        /\ res.full_text.p_cnt = CountMarkedByTag(Pushes, AGREE)
        /\ res.full_text.b_cnt = CountMarkedByTag(Pushes, BOO)

Complete(i) ==
    /\ Pushes[i].tag.present
    /\ Pushes[i].userid.present
    /\ Pushes[i].content.present

CompleteBlocks == {i \in 1..Len(Pushes) : Complete(i)}

\* the place of block i among the complete blocks of the page
Rank(i) == Cardinality({j \in CompleteBlocks : j <= i})

\* C3: a block lacking its stance tag, user id or comment text is left out
\* and the parse goes on; the complete blocks are emitted in page order; the
\* count in the header is the number of complete blocks; a block lacking
\* only the IP/time field is emitted with 'No_Time'.
C3_CommentExtraction ==
    Parsed =>
        LET cs == res.full_text.comments
        IN  /\ Len(cs) = Cardinality(CompleteBlocks)
            /\ res.full_text.n = Cardinality(CompleteBlocks)
            /\ \A i \in CompleteBlocks :
                   LET c == cs[Rank(i)]
                       p == Pushes[i]
                   IN  /\ c.tag = <<p.tag.text[1]>>
                       /\ c.user = p.userid.text
                       /\ c.content = IF Contains(p.content.text, AGREE)
                                      THEN <<AGREE>> ELSE <<"o", "k">>
                       /\ c.time = IF p.ipdatetime.present
                                   THEN <<"i", "p", " ", "t">>
                                   ELSE <<"No_Time">>

\* A page whose first block has no user id and whose second block lacks only
\* the IP/time field: one comment, with the placeholder.
C3_Witness ==
    /\ Parsed
    /\ Len(Pushes) = 2
    /\ ~Pushes[1].userid.present /\ Pushes[1].tag.present
    /\ Complete(2) /\ ~Pushes[2].ipdatetime.present
    /\ res.full_text.n = 1
    /\ res.full_text.comments[1].time = <<"No_Time">>

Fetched == response.kind = "http" /\ response.status = 200

\* C4: fewer than 4 metadata values give None; a failed fetch (transport
\* error, non-200) or a missing main-content region gives None; what is
\* returned is None or a complete (block, title, date) triple.
C4_AllOrNothing ==
    pc = "parsed" =>
        /\ (Fetched /\ Len(response.page.meta) < MIN_META) => res = None
        /\ ~Fetched => res = None
        /\ (Fetched /\ ~response.page.main.present) => res = None
        /\ res # None =>
               /\ DOMAIN res = {"none", "title", "date", "full_text"}
               /\ res.title = <<"T">> /\ res.date = <<"d">>
               /\ DOMAIN res.full_text =
                      {"title", "author", "date", "p_cnt", "b_cnt", "content",
                       "n", "comments"}
               /\ res.full_text.title = <<"T">>
               /\ res.full_text.author = <<"a", "u">>
               /\ res.full_text.date = <<"d">>
               /\ res.full_text.content = <<"b">>

\* A fetched page with three metadata values and a main-content region.
C4_Witness ==
    /\ pc = "parsed"
    /\ Fetched
    /\ Len(response.page.meta) = MIN_META - 1
    /\ response.page.main.present
    /\ res = None

----------------------------------------------------------------------------
\* The technical-indicator report.

\* A float of the price table: a number or NaN.
Num(v) == [nan |-> FALSE, v |-> v]
NaN    == [nan |-> TRUE, v |-> 0]

\* a < b and a > b on floats: false whenever one side is NaN
Lt(a, b) == ~a.nan /\ ~b.nan /\ a.v < b.v
Gt(a, b) == ~a.nan /\ ~b.nan /\ a.v > b.v
Le(a, b) == ~a.nan /\ ~b.nan /\ a.v <= b.v
Ge(a, b) == ~a.nan /\ ~b.nan /\ a.v >= b.v

CrossSignalLoose(y, t) ==
    IF Le(y.K, y.D) /\ Ge(t.K, t.D) THEN "GoldenCross"
    ELSE IF Ge(y.K, y.D) /\ Le(t.K, t.D) THEN "DeathCross"
    ELSE ""

\* kd_sig, from yesterday's and today's rows
CrossSignal(y, t) ==
    IF Lt(y.K, y.D) /\ Gt(t.K, t.D) THEN "GoldenCross"
    ELSE IF Gt(y.K, y.D) /\ Lt(t.K, t.D) THEN "DeathCross"
    ELSE ""

Unavailable(kind) ==
    [kind |-> kind, y_info |-> "", signal |-> "", ma60 |-> "", fetch_time |-> 0]

\* the report built from the last rows of a table of at least MIN_BARS bars
BuildReport(df, now) ==
    LET last == Len(df.tail)
        t    == df.tail[last]
    IN  [kind       |-> "report",
         y_info     |-> IF df.n > 1 THEN "computed" ELSE "none",
         signal     |-> LET kd_sig == IF df.n > 1
                                      THEN CrossSignal(df.tail[last - 1], t)
                                      ELSE ""
                        IN  IF kd_sig # "" THEN kd_sig ELSE "None",
         ma60       |-> IF df.n >= MA60_WIN THEN "value" ELSE "nan",
         fetch_time |-> now]

calculate_technical_indicators_off_by_one(hist, now) ==
    IF hist.raises THEN Unavailable("error")
    ELSE IF hist.n = 0 \/ hist.n <= MIN_BARS THEN Unavailable("insufficient")
    ELSE BuildReport(hist, now)

\* calculate_technical_indicators(ticker), given what stock.history produced
calculate_technical_indicators(hist, now) ==
    IF hist.raises THEN Unavailable("error")
    ELSE IF hist.n = 0 \/ hist.n < MIN_BARS THEN Unavailable("insufficient")
    ELSE BuildReport(hist, now)

\* Inputs: the number of bars, and K and D of the last TailLen rows.
KDValues == {Num(1), Num(2), NaN}
Rows     == [K : KDValues, D : KDValues]
MaxBars  == MA60_WIN + ExtraBars

Tables ==
    UNION {[raises : {FALSE}, n : {n},
            tail : [1..Min(n, TailLen) -> Rows]] : n \in 0..MaxBars}

Failure == [raises |-> TRUE, n |-> 0, tail |-> <<>>]

InitTech ==
    /\ history \in Tables \cup {Failure}
    /\ report = Idle
    /\ pc = "tech"
    /\ HandlerIdle /\ LinksIdle /\ ParseIdle /\ ModelIdle

Calculate ==
    /\ pc = "tech"
    /\ report' = calculate_technical_indicators(history, 0)
    /\ pc' = "reported"
    /\ UNCHANGED <<history, handlerVars>>
    /\ UNCHANGED <<linkVars, parseVars, modelVars>>

NextTech == Calculate

SpecTech == InitTech /\ [][NextTech]_vars

\* C5: fewer than 20 bars (none, or 19) give "insufficient data"; 20 or more
\* give the full report, MA60 still undefined below 60 bars; the
\* "no previous-day data" branch is never taken.
C5_IndicatorBoundary ==
    (pc = "reported" /\ ~history.raises) =>
        /\ history.n < 20 => report.kind = "insufficient"
        /\ history.n >= 20 =>
               /\ report.kind = "report"
               /\ report.y_info = "computed"
               /\ report.signal \in {"GoldenCross", "DeathCross", "None"}
               /\ history.n < 60 => report.ma60 = "nan"
               /\ history.n >= 60 => report.ma60 = "value"
        /\ report.y_info # "none"

\* A table of exactly 20 bars: the report is built, without MA60.
C5_Witness ==
    /\ pc = "reported"
    /\ ~history.raises
    /\ history.n = 20
    /\ report.kind = "report"
    /\ report.ma60 = "nan"

Today     == history.tail[Len(history.tail)]
Yesterday == history.tail[Len(history.tail) - 1]

Below(r) == ~r.K.nan /\ ~r.D.nan /\ r.K.v < r.D.v
Above(r) == ~r.K.nan /\ ~r.D.nan /\ r.K.v > r.D.v

\* C6: GoldenCross exactly when yesterday K < D and today K > D, DeathCross
\* exactly when yesterday K > D and today K < D, None otherwise; never both;
\* no row before yesterday's changes the signal.
C6_CrossSignal ==
    (pc = "reported" /\ report.kind = "report") =>
        /\ report.signal = "GoldenCross" <=> (Below(Yesterday) /\ Above(Today))
        /\ report.signal = "DeathCross" <=> (Above(Yesterday) /\ Below(Today))
        /\ report.signal = "None" <=>
               ~(Below(Yesterday) /\ Above(Today))
                   /\ ~(Above(Yesterday) /\ Below(Today))
        /\ \A k \in 1..(Len(history.tail) - 2) : \A r \in Rows :
               calculate_technical_indicators(
                   [history EXCEPT !.tail[k] = r], 0).signal = report.signal

\* Yesterday K < D, today K > D, whatever came before.
C6_Witness ==
    /\ pc = "reported"
    /\ report.kind = "report"
    /\ Yesterday = [K |-> Num(1), D |-> Num(2)]
    /\ Today = [K |-> Num(2), D |-> Num(1)]
    /\ history.tail[1] = [K |-> Num(2), D |-> Num(1)]
    /\ report.signal = "GoldenCross"

----------------------------------------------------------------------------
\* Model discovery.  A model name is a sequence of tokens, the resource
\* prefix "models/" being one token.

PRO     == <<"gemini-1.5-pro">>
MID     == <<"gemini-1.0-pro">>
FLASH   == <<"gemini-1.5-flash">>
DEFAULT == <<"gemini-1.5-flash">>

RECURSIVE RemovePrefix(_)
\* str.replace('models/', '')
RemovePrefix(name) ==
    IF name = <<>> THEN <<>>
    ELSE IF Head(name) = "models/" THEN RemovePrefix(Tail(name))
         ELSE <<Head(name)>> \o RemovePrefix(Tail(name))

\* 'generateContent' in m.get('supportedGenerationMethods', [])
Capable(m) == m.methods.present /\ "generateContent" \in m.methods.set

RECURSIVE ValidModels(_)
\* the list comprehension that builds valid_models
ValidModels(models) ==
    IF models = <<>> THEN <<>>
    ELSE IF Capable(Head(models))
         THEN <<RemovePrefix(Head(models).name.text)>>
                  \o ValidModels(Tail(models))
         ELSE ValidModels(Tail(models))

\* m['name'] raises for a capable entry without a name
ListingRaises(models) ==
    \E i \in 1..Len(models) : Capable(models[i]) /\ ~models[i].name.present

Pick(valid_models, first, second, third) ==
    IF first \in Range(valid_models) THEN first
    ELSE IF second \in Range(valid_models) THEN second
    ELSE IF third \in Range(valid_models) THEN third
    ELSE IF valid_models # <<>> THEN valid_models[1]
    ELSE DEFAULT

find_valid_model_flash_first(resp) ==
    IF resp.kind # "http" \/ resp.status # 200 \/ ~resp.json
           \/ ~resp.has_models
    THEN DEFAULT
    ELSE IF ListingRaises(resp.models) THEN DEFAULT
    ELSE Pick(ValidModels(resp.models), FLASH, MID, PRO)

\* find_valid_model(api_key), given what the listing call produced
find_valid_model(resp) ==
    IF resp.kind # "http" THEN DEFAULT            \* requests.get raised
    ELSE IF resp.status # 200 THEN DEFAULT
    ELSE IF ~resp.json THEN DEFAULT               \* response.json() raised
    ELSE IF ~resp.has_models THEN DEFAULT
    ELSE IF ListingRaises(resp.models) THEN DEFAULT
    ELSE Pick(ValidModels(resp.models), PRO, MID, FLASH)

\* Inputs of the discovery.
OTHER_MODEL == <<"gemini-2.0">>

Names == {NoSpan, Span(<<"models/">> \o PRO), Span(PRO),
          Span(<<"models/">> \o MID), Span(<<"models/">> \o FLASH),
          Span(<<"models/">> \o OTHER_MODEL), Span(<<"models/", "aqa">>)}

Methods == {[present |-> FALSE, set |-> {}],
            [present |-> TRUE, set |-> {"generateContent", "countTokens"}],
            [present |-> TRUE, set |-> {"embedContent"}]}

Entries == [name : Names, methods : Methods]

Listing(kind, status, json, has_models, models) ==
    [kind |-> kind, status |-> status, json |-> json,
     has_models |-> has_models, models |-> models]

Listings ==
    {Listing("error", 0, FALSE, FALSE, <<>>),
     Listing("http", 403, TRUE, FALSE, <<>>),
     Listing("http", 200, FALSE, FALSE, <<>>),
     Listing("http", 200, TRUE, FALSE, <<>>)}
    \cup {Listing("http", 500, TRUE, TRUE, ms) : ms \in SeqsUpTo(Entries, 1)}
    \cup {Listing("http", 200, TRUE, TRUE, ms) :
              ms \in SeqsUpTo(Entries, MaxModels)}

InitModel ==
    /\ listing \in Listings
    /\ model_name = Idle
    /\ pc = "discover"
    /\ HandlerIdle /\ LinksIdle /\ ParseIdle /\ TechIdle

Discover ==
    /\ pc = "discover"
    /\ model_name' = find_valid_model(listing)
    /\ pc' = "discovered"
    /\ UNCHANGED <<listing, handlerVars>>
    /\ UNCHANGED <<linkVars, parseVars, techVars>>

NextModel == Discover

SpecModel == InitModel /\ [][NextModel]_vars

\* the listing was read and every capable entry carries a name
Listed ==
    /\ listing.kind = "http" /\ listing.status = 200
    /\ listing.json /\ listing.has_models
    /\ \A i \in 1..Len(listing.models) :
           Capable(listing.models[i]) => listing.models[i].name.present

\* a capable entry is listed under this name, with or without the prefix
Offers(nm) ==
    \E i \in 1..Len(listing.models) :
        /\ "generateContent" \in listing.models[i].methods.set
        /\ listing.models[i].name.text \in {nm, <<"models/">> \o nm}

CapableAt(i) == "generateContent" \in listing.models[i].methods.set

\* C10: the pro-tier name if a capable entry has it, else the mid-tier
\* name, else the fast-tier name, else the first capable model listed; the
\* hardcoded default when the call fails, the status is not 200, there is no
\* model list or no capable model.  A name is always returned.
C10_ModelDiscovery ==
    pc = "discovered" =>
        /\ model_name # <<>>
        /\ ~Listed => model_name = <<"gemini-1.5-flash">>
        /\ Listed =>
               IF Offers(<<"gemini-1.5-pro">>)
               THEN model_name = <<"gemini-1.5-pro">>
               ELSE IF Offers(<<"gemini-1.0-pro">>)
               THEN model_name = <<"gemini-1.0-pro">>
               ELSE IF Offers(<<"gemini-1.5-flash">>)
               THEN model_name = <<"gemini-1.5-flash">>
               ELSE IF \E i \in 1..Len(listing.models) : CapableAt(i)
               THEN LET f == CHOOSE i \in 1..Len(listing.models) :
                                 /\ CapableAt(i)
                                 /\ \A j \in 1..(i - 1) : ~CapableAt(j)
                    IN  <<"models/">> \o model_name
                            = listing.models[f].name.text
               ELSE model_name = <<"gemini-1.5-flash">>

\* The fast tier is listed before the pro tier, both capable.
C10_Witness ==
    /\ pc = "discovered"
    /\ Listed
    /\ Len(listing.models) = 2
    /\ listing.models[1].name.text = <<"models/", "gemini-1.5-flash">>
    /\ listing.models[2].name.text = <<"models/", "gemini-1.5-pro">>
    /\ CapableAt(1) /\ CapableAt(2)
    /\ model_name = <<"gemini-1.5-pro">>

----------------------------------------------------------------------------
\* The start-button handler over the session state.

\* st.session_state.tech_report = ""
NoReport == Unavailable("")

\* re.sub(r"\D", "", keyword_input)
DigitsOf(text) == SelectSeq(text, LAMBDA c : c \in Digit)

RECURSIVE FirstWord(_)
FirstWord(t) ==
    IF t = <<>> \/ Head(t) \in White THEN <<>>
    ELSE <<Head(t)>> \o FirstWord(Tail(t))

RECURSIVE Split(_)
\* keyword_input.split()
Split(text) ==
    LET t == LStrip(text)
    IN  IF t = <<>> THEN <<>>
        ELSE LET w == FirstWord(t)
             IN  <<w>> \o Split(SubSeq(t, Len(w) + 1, Len(t)))

DigitChar(n) == CHOOSE c \in Digit : DigitVal(c) = n

\* What the forum serves for a link in a given run: the title and the date
\* of the page name the link and the run that fetched it.
ArticlePage(link, r, metas) ==
    [meta |-> SubSeq(<<<<"a", "u">>, <<"S">>,
                       <<"T">> \o Tail(link) \o <<"@", DigitChar(r)>>,
                       <<"d", "@", DigitChar(r)>>>>, 1, metas),
     main |-> [present |-> TRUE, body |-> <<"b">>,
               pushes |-> <<[tag |-> Span(<<AGREE, " ">>),
                             userid |-> Span(<<"u">>),
                             content |-> Span(<<":", " ", "o", "k">>),
                             ipdatetime |-> NoSpan]>>]]

ArticleResponses(link, r) ==
    {[kind |-> "error", status |-> 0, page |-> NoPage],
     [kind |-> "http", status |-> 200,
      page |-> ArticlePage(link, r, MIN_META - 1)],
     [kind |-> "http", status |-> 200, page |-> ArticlePage(link, r, MIN_META)]}

\* What a search serves for one keyword: no page, or the hrefs of its title
\* rows, one of which may be an anchor without href.
SearchPool == {U300, U100, U200, UNONE}

SearchResponses ==
    {[soup |-> FALSE, hrefs |-> {}, bare_anchor |-> FALSE]}
    \cup {[soup |-> TRUE, hrefs |-> S, bare_anchor |-> b] :
              S \in SUBSET SearchPool, b \in BOOLEAN}

\* What the price provider serves.
GoldenTail ==
    <<[K |-> Num(1), D |-> Num(1)], [K |-> Num(1), D |-> Num(2)],
      [K |-> Num(2), D |-> Num(1)]>>

PriceHistories ==
    {Failure,
     [raises |-> FALSE, n |-> 0, tail |-> <<>>],
     [raises |-> FALSE, n |-> MIN_BARS - 1, tail |-> GoldenTail],
     [raises |-> FALSE, n |-> MIN_BARS, tail |-> GoldenTail]}

KeywordInputs ==
    {<<"2", "3">>, <<"a", "b">>, <<>>, <<"a", "1", " ", "b", "2">>}

ButtonLimits == {MIN_LIMIT, MIN_LIMIT + 1, MAX_LIMIT}

AtRest == pc \in {"ready", "stopped", "crashed", "nolinks", "completed"}

Init ==
    /\ scraped_data = <<>>
    /\ tech_report = NoReport
    /\ logs = <<>>
    /\ pc = "ready"
    /\ run = 0
    /\ keyword_input = <<"2", "3">>
    /\ stock_code = <<>>
    /\ idx = 0 /\ all_text_data = <<>> /\ parsed = <<>> /\ prior = 0
    /\ LinksIdle /\ ParseIdle /\ TechIdle /\ ModelIdle

StartRunKeepsLogs ==
    /\ AtRest
    /\ run < MaxRuns
    /\ \E kw \in KeywordInputs, lim \in ButtonLimits, hist \in PriceHistories :
        /\ run' = run + 1
        /\ prior' = Len(logs)
        /\ keyword_input' = kw
        /\ limit_ptt' = lim
        /\ scraped_data' = <<>>
        /\ logs' = logs
        /\ stock_code' = DigitsOf(kw)
        /\ IF DigitsOf(kw) = <<>>
           THEN tech_report' = NoReport /\ pc' = "stopped"
           ELSE /\ tech_report' = calculate_technical_indicators(hist, run + 1)
                /\ pc' = "search"
    /\ ptt_links' = {} /\ sorted_links' = <<>>
    /\ idx' = 0 /\ all_text_data' = <<>> /\ parsed' = <<>>
    /\ UNCHANGED <<parseVars, techVars, modelVars>>

\* The button is pressed: the session is cleared, the ticker is checked and
\* the indicators are computed.
StartRun ==
    /\ AtRest
    /\ run < MaxRuns
    /\ \E kw \in KeywordInputs, lim \in ButtonLimits, hist \in PriceHistories :
        /\ run' = run + 1
        /\ prior' = Len(logs)
        /\ keyword_input' = kw
        /\ limit_ptt' = lim
        /\ scraped_data' = <<>>
        /\ logs' = <<>>
        /\ stock_code' = DigitsOf(kw)
        /\ IF DigitsOf(kw) = <<>>
           THEN tech_report' = NoReport /\ pc' = "stopped"
           ELSE /\ tech_report' = calculate_technical_indicators(hist, run + 1)
                /\ pc' = "search"
    /\ ptt_links' = {} /\ sorted_links' = <<>>
    /\ idx' = 0 /\ all_text_data' = <<>> /\ parsed' = <<>>
    /\ UNCHANGED <<parseVars, techVars, modelVars>>

\* the links the pages of the keywords add up to
Gathered(pages) == UNION {pages[k].hrefs : k \in DOMAIN pages}

\* The search loop and the selection of the links.
Search ==
    /\ pc = "search"
    /\ \E pages \in [1..Len(Split(keyword_input)) -> SearchResponses] :
        /\ Cardinality(Gathered(pages)) <= MaxLinks
        /\ IF \E k \in DOMAIN pages : pages[k].bare_anchor
           THEN \* a['href'] raises and the script ends
                /\ pc' = "crashed"
                /\ UNCHANGED <<ptt_links, sorted_links>>
           ELSE /\ ptt_links' = Gathered(pages)
                /\ \E order \in Orders(Gathered(pages)) :
                       sorted_links' = SelectLinks(order, limit_ptt)
                /\ pc' = IF Gathered(pages) = {} THEN "nolinks" ELSE "loop"
    /\ UNCHANGED <<scraped_data, tech_report, logs, run, keyword_input,
                   stock_code, limit_ptt, idx, all_text_data, parsed, prior>>
    /\ UNCHANGED <<parseVars, techVars, modelVars>>

LogLine(r) == [kind |-> "article", date |-> r.date, title |-> r.title]

Call(link, r) ==
    [link |-> link, text |-> IF r = None THEN <<>> ELSE <<r.full_text>>]

ParseNextStopsOnFailure ==
    /\ pc = "loop"
    /\ idx < Len(sorted_links)
    /\ LET link == sorted_links[idx + 1]
       IN  \E resp \in ArticleResponses(link, run) :
               LET r == parse_ptt_article(resp)
               IN  /\ parsed' = Append(parsed, Call(link, r))
                   /\ IF r # None
                      THEN /\ all_text_data' = all_text_data \o <<r.full_text>>
                           /\ logs' = Append(logs, LogLine(r))
                           /\ idx' = idx + 1
                      ELSE /\ UNCHANGED <<all_text_data, logs>>
                           /\ idx' = Len(sorted_links)
    /\ UNCHANGED <<scraped_data, tech_report, pc, run, keyword_input,
                   stock_code, prior, linkVars>>
    /\ UNCHANGED <<parseVars, techVars, modelVars>>

\* One turn of the loop over sorted_links.
ParseNext ==
    /\ pc = "loop"
    /\ idx < Len(sorted_links)
    /\ LET link == sorted_links[idx + 1]
       IN  \E resp \in ArticleResponses(link, run) :
               LET r == parse_ptt_article(resp)
               IN  /\ parsed' = Append(parsed, Call(link, r))
                   /\ IF r # None
                      THEN /\ all_text_data' = all_text_data \o <<r.full_text>>
                           /\ logs' = Append(logs, LogLine(r))
                      ELSE UNCHANGED <<all_text_data, logs>>
    /\ idx' = idx + 1
    /\ UNCHANGED <<scraped_data, tech_report, pc, run, keyword_input,
                   stock_code, prior, linkVars>>
    /\ UNCHANGED <<parseVars, techVars, modelVars>>

\* The loop is over: the gathered text goes to the session.
Finish ==
    /\ pc = "loop"
    /\ idx = Len(sorted_links)
    /\ scraped_data' = all_text_data
    /\ pc' = "completed"
    /\ UNCHANGED <<tech_report, logs, run, keyword_input, stock_code, idx,
                   all_text_data, parsed, prior, linkVars>>
    /\ UNCHANGED <<parseVars, techVars, modelVars>>

Next == StartRun \/ Search \/ ParseNext \/ Finish

Spec == Init /\ [][Next]_vars

\* the run a title or a date was served in
RunOf(text) == DigitVal(text[Len(text)])

\* C7: scraped_data, tech_report and logs hold only what the latest run
\* produced; a run that stops at the ticker check leaves all three empty, a
\* run that finds no link leaves scraped_data and logs empty.
C7_RunIsolation ==
    /\ \A i \in 1..Len(logs) :
           RunOf(logs[i].title) = run /\ RunOf(logs[i].date) = run
    /\ \A i \in 1..Len(scraped_data) :
           RunOf(scraped_data[i].title) = run
    /\ tech_report.kind = "report" => tech_report.fetch_time = run
    /\ pc = "stopped" =>
           scraped_data = <<>> /\ logs = <<>> /\ tech_report = NoReport
    /\ pc = "nolinks" => scraped_data = <<>> /\ logs = <<>>

\* A run stopped at the ticker check, pressed while articles were listed.
C7_Witness ==
    /\ pc = "stopped"
    /\ run > 1
    /\ prior > 0
    /\ logs = <<>> /\ scraped_data = <<>> /\ tech_report = NoReport

RECURSIVE Joined(_)
Joined(calls) ==
    IF calls = <<>> THEN <<>> ELSE Head(calls).text \o Joined(Tail(calls))

\* C8: every selected link is passed to parse_ptt_article once, in sorted
\* order, whatever the earlier articles and the indicators gave; the
\* articles that parse are joined into scraped_data in that order, the
\* others add nothing.
C8_BatchContinuation ==
    /\ pc = "loop" =>
           /\ Len(parsed) = idx
           /\ \A i \in 1..idx : parsed[i].link = sorted_links[i]
    /\ pc = "completed" =>
           /\ Len(parsed) = Len(sorted_links)
           /\ \A i \in 1..Len(parsed) : parsed[i].link = sorted_links[i]
           /\ scraped_data = Joined(parsed)
           /\ Len(scraped_data)
                  = Cardinality({i \in 1..Len(parsed) : parsed[i].text # <<>>})

\* Insufficient price data, a first article that fails and a second that
\* parses.
C8_Witness ==
    /\ pc = "completed"
    /\ tech_report.kind = "insufficient"
    /\ Len(sorted_links) >= 2
    /\ parsed[1].text = <<>>
    /\ parsed[2].text # <<>>
    /\ scraped_data = parsed[2].text

\* C9: after a run the log holds a 'fetch failed' line, keyed by its URL, for
\* every selected link whose parse gave None, so that the log accounts for
\* every selected link.
C9_FailureRecorded ==
    pc = "completed" =>
        /\ \A i \in 1..Len(parsed) :
               parsed[i].text = <<>> =>
                   \E k \in 1..Len(logs) :
                       logs[k].kind = "failed" /\ logs[k].title = parsed[i].link
        /\ Len(logs) = Len(sorted_links)

====
